---- MODULE Spec2Model ----
(***************************************************************************)
(* Alpha Laundry: the quota ledger and the request lifecycle of the        *)
(* Express/TypeScript backend (studentController.submitRequest,            *)
(* adminController.updateRequestStatus, their routes and middleware) over  *)
(* the PostgreSQL tables students, laundry_requests and admins.            *)
(*                                                                         *)
(* Every `await` of a handler is a point where other handlers may run, so  *)
(* submitRequest is one action per awaited query.  The database is         *)
(* PostgreSQL at its default isolation level (READ COMMITTED): a statement *)
(* sees committed rows only, writes of an open transaction are staged      *)
(* until COMMIT, and an UPDATE of a row waits for the row lock.            *)
(***************************************************************************)
EXTENDS Integers, Sequences, FiniteSets, TLC

(***************************************************************************)
(* Bounds of the model.                                                    *)
(***************************************************************************)
\* Values handed out by the SERIAL sequence of laundry_requests.id.
MaxSerial == 2

\* admins.id values the database scripts may draw from the sequence.
MaxAdminSerial == 3

\* HTTP calls to POST /student/submit that may be in flight together.
Calls == {1, 2}

\* Bodies {num_clothes: n} a client sends.
NumClothesInputs == {0, 20, 51}

\* Bodies {status: s} a client sends to PATCH /admin/update-status.
StatusInputs == {"submitted", "processing", "completed", "cancelled", "shipped"}

(***************************************************************************)
(* Program constants.                                                      *)
(***************************************************************************)
\* students.remaining_quota INTEGER DEFAULT 30
DefaultQuota == 30

\* Status the error handler answers for an error that is no AppError.
UnhandledErrorStatus == 500

\* The student rows of the database.
StudentIds == {"STUDENT001", "STU001"}

\* The admin rows of the database (admins.id).
AdminIds == {"1"}

\* Students whose row is gone while a token signed for them is still valid:
\* the reset script truncates students and re-creates STUDENT001 only.
FormerStudentIds == {"STU002"}

VARIABLES
    students,          \* committed table students: student_id -> remaining_quota
    laundry_requests,  \* committed table laundry_requests: id -> row
    serial,            \* next value of the sequence behind laundry_requests.id
    rowLock,           \* students row -> the call whose open transaction updated it (0: none)
    call,              \* the submitRequest invocations: call -> locals and position
    last,              \* the last response of PATCH /admin/update-status
    admins,            \* committed table admins: username -> row
    adminSerial,       \* next value of the sequence behind admins.id
    reset              \* the reset script: its position and its transaction's rows

vars == <<students, laundry_requests, serial, rowLock, call, last,
          admins, adminSerial, reset>>

\* What the handlers of the server never write.
scriptVars == <<admins, adminSerial, reset>>

\* bcrypt.hash(password, 10), and bcrypt.compare(password, hash).
Hash(password) == <<"$2b$10$", password>>

compare(password, hash) == hash = Hash(password)

\* INSERT INTO admins (username, password_hash): id comes from the sequence.
NewAdmin(id, password) == [id |-> id, password_hash |-> Hash(password)]

\* The reset script when it is not running.
IdleReset ==
    [pc |-> "idle", exitCode |-> 0, students |-> << >>, admins |-> << >>]

(***************************************************************************)
(* Bearer tokens: what jwt.verify decodes ({id, role}), or no valid token. *)
(***************************************************************************)
NoToken == [role |-> "none", id |-> ""]

Tokens ==
    {NoToken}
        \cup {[role |-> "student", id |-> s] : s \in StudentIds \cup FormerStudentIds}
        \cup {[role |-> "admin", id |-> a] : a \in AdminIds}

\* Mutant: the token is verified but its user is not looked up.
protect_NoLookup(tk) == tk.role \in {"student", "admin"}

\* protect: the user the token names, looked up in its table; FALSE when the
\* header is missing, the token invalid or the row gone (every throw -> 401).
protect(tk) ==
    CASE tk.role = "student" -> tk.id \in DOMAIN students
      [] tk.role = "admin" -> tk.id \in AdminIds
      [] OTHER -> FALSE

\* Mutant: the role of the token is not compared with the allowed roles.
restrictTo_AnyRole(roles, tk) == TRUE

\* restrictTo(...roles): the role of req.user is one of roles.
restrictTo(roles, tk) == tk.role \in roles

\* Status of the middleware chain router.use(protect); router.use(restrictTo(r)):
\* 0 when the request passes on to the route.
AuthStatus(roles, tk) ==
    IF ~protect(tk) THEN 401
    ELSE IF ~restrictTo(roles, tk) THEN 403
    ELSE 0

\* body('num_clothes').isInt({ min: 1 })
ValidNumClothes(n) == n >= 1

\* Mutant: the route has no validator for status.
ValidStatus_Any(st) == TRUE

\* body('status').isIn(['processing', 'completed'])
ValidStatus(st) == st \in {"processing", "completed"}

(***************************************************************************)
(* Rows.                                                                   *)
(***************************************************************************)
\* Mutant: the row is created already in processing.
NewRequest_Processing(studentId, n) ==
    [student_id |-> studentId, num_clothes |-> n,
     status |-> "processing", submission_date |-> "CURRENT_TIMESTAMP",
     completed_date |-> "NULL"]

\* INSERT INTO laundry_requests (student_id, num_clothes): the other columns
\* take their defaults (status 'submitted', submission_date
\* CURRENT_TIMESTAMP, completed_date NULL).
NewRequest(studentId, n) ==
    [student_id |-> studentId, num_clothes |-> n,
     status |-> "submitted", submission_date |-> "CURRENT_TIMESTAMP",
     completed_date |-> "NULL"]

\* started_date of a row as RETURNING * gives it: laundry_requests has the
\* columns id, student_id, num_clothes, status, submission_date and
\* completed_date, and no started_date.
started_date(row) ==
    IF "started_date" \in DOMAIN row THEN row.started_date ELSE "NULL"

IdleCall ==
    [pc |-> "idle", user |-> "", num_clothes |-> 0, remainingQuota |-> 0,
     requestId |-> 0, updated |-> FALSE, newQuota |-> 0,
     client |-> 0, failedAt |-> "", statusCode |-> 0, message |-> ""]

NoResponse == [statusCode |-> 0, message |-> ""]

Init ==
    /\ students = [s \in StudentIds |-> DefaultQuota]
    /\ laundry_requests = << >>
    /\ serial = 1
    /\ rowLock = [s \in StudentIds |-> 0]
    /\ call = [c \in Calls |-> IdleCall]
    /\ last = NoResponse
    /\ admins = ("admin" :> NewAdmin(1, "admin123"))
    /\ adminSerial = 2
    /\ reset = IdleReset

\* The invocations once c has sent its response: it is over, and its
\* transaction locals are gone.
Answered(c, code, msg) ==
    [call EXCEPT ![c].pc = "done", ![c].requestId = 0, ![c].updated = FALSE,
                 ![c].newQuota = 0,
                 ![c].statusCode = code, ![c].message = msg]

\* res.status(code).json(...) or next(error): the one response of call c.
Respond(c, code, msg) == call' = Answered(c, code, msg)

\* finally { client.release() }: call c gives its pooled client back.
Release(calls, c) == [calls EXCEPT ![c].client = @ - 1]

\* Calls that will still draw an id from the sequence.
Pending == {c \in Calls : call[c].pc \in {"select", "connect", "insert"}}

(***************************************************************************)
(* POST /student/submit: protect, restrictTo('student'), the validator,    *)
(* then submitRequest up to its first await.                               *)
(***************************************************************************)
\* Mutant: the student id is taken from the request body, which may name
\* any student, instead of req.user.
Receive_StudentIdFromBody(c, tk, n) ==
    /\ call[c].pc \in {"idle", "done"}
    /\ (serial - 1) + Cardinality(Pending) < MaxSerial
    /\ LET auth == AuthStatus({"student"}, tk) IN
       IF auth # 0
       THEN call' = [call EXCEPT ![c] =
                [IdleCall EXCEPT !.pc = "done", !.statusCode = auth,
                                 !.message = "Not authorized to access this route"]]
       ELSE IF ~ValidNumClothes(n)
       THEN call' = [call EXCEPT ![c] =
                [IdleCall EXCEPT !.pc = "done", !.user = tk.id, !.num_clothes = n,
                                 !.statusCode = 400,
                                 !.message = "Number of clothes must be at least 1"]]
       ELSE \E s \in StudentIds :
                call' = [call EXCEPT ![c] =
                    [IdleCall EXCEPT !.pc = "select", !.user = s, !.num_clothes = n]]
    /\ UNCHANGED <<students, laundry_requests, serial, rowLock, last>>

Receive(c, tk, n) ==
    /\ call[c].pc \in {"idle", "done"}
    /\ (serial - 1) + Cardinality(Pending) < MaxSerial
    /\ LET auth == AuthStatus({"student"}, tk) IN
       IF auth # 0
       THEN call' = [call EXCEPT ![c] =
                [IdleCall EXCEPT !.pc = "done", !.statusCode = auth,
                                 !.message = "Not authorized to access this route"]]
       ELSE IF ~ValidNumClothes(n)
       THEN call' = [call EXCEPT ![c] =
                [IdleCall EXCEPT !.pc = "done", !.user = tk.id, !.num_clothes = n,
                                 !.statusCode = 400,
                                 !.message = "Number of clothes must be at least 1"]]
       ELSE call' = [call EXCEPT ![c] =
                [IdleCall EXCEPT !.pc = "select", !.user = tk.id, !.num_clothes = n]]
    /\ UNCHANGED <<students, laundry_requests, serial, rowLock, last>>

\* Mutant: the check only asks whether any quota is left.
InsufficientQuota_AnyLeft(remainingQuota, n) == remainingQuota <= 0

\* if (remainingQuota < num_clothes) throw new AppError('Insufficient quota', 400)
InsufficientQuota(remainingQuota, n) == remainingQuota < n

\* SELECT remaining_quota FROM students WHERE student_id = $1, and the two
\* checks made on its result before the next await (pool.connect()).
SubmitSelect(c) ==
    /\ call[c].pc = "select"
    /\ IF call[c].user \notin DOMAIN students
       THEN Respond(c, 404, "Student not found")
       ELSE LET q == students[call[c].user] IN
            IF InsufficientQuota(q, call[c].num_clothes)
            THEN call' = [call EXCEPT ![c].pc = "done", ![c].remainingQuota = q,
                                      ![c].statusCode = 400,
                                      ![c].message = "Insufficient quota"]
            ELSE call' = [call EXCEPT ![c].pc = "connect", ![c].remainingQuota = q]
    /\ UNCHANGED <<students, laundry_requests, serial, rowLock, last>>

\* const client = await pool.connect(); await client.query('BEGIN')
SubmitBegin(c) ==
    /\ call[c].pc = "connect"
    /\ call' = [call EXCEPT ![c].pc = "insert", ![c].client = @ + 1]
    /\ UNCHANGED <<students, laundry_requests, serial, rowLock, last>>

\* INSERT INTO laundry_requests (student_id, num_clothes) VALUES ($1, $2)
\* RETURNING *: the row is staged in the transaction and takes the next id.
SubmitInsert(c) ==
    /\ call[c].pc = "insert"
    /\ call[c].user \in DOMAIN students
    /\ call' = [call EXCEPT ![c].pc = "update", ![c].requestId = serial]
    /\ serial' = serial + 1
    /\ UNCHANGED <<students, laundry_requests, rowLock, last>>

\* Mutant: one unit is charged per request instead of num_clothes.
DecrementedQuota_PerRequest(remaining_quota, n) == remaining_quota - 1

\* SET remaining_quota = remaining_quota - $1
DecrementedQuota(remaining_quota, n) == remaining_quota - n

\* UPDATE students SET remaining_quota = remaining_quota - $1 WHERE
\* student_id = $2: waits for the row lock, then writes a new version of the
\* latest committed row, staged until COMMIT.
SubmitUpdate(c) ==
    /\ call[c].pc = "update"
    /\ LET s == call[c].user IN
       IF s \in DOMAIN students
       THEN /\ rowLock[s] = 0
            /\ rowLock' = [rowLock EXCEPT ![s] = c]
            /\ call' = [call EXCEPT ![c].pc = "commit", ![c].updated = TRUE,
                            ![c].newQuota =
                                DecrementedQuota(students[s], call[c].num_clothes)]
       ELSE /\ call' = [call EXCEPT ![c].pc = "commit"]
            /\ UNCHANGED rowLock
    /\ UNCHANGED <<students, laundry_requests, serial, last>>

\* The lock a transaction holds on student rows, given up at its end.
Released(c) == [s \in DOMAIN rowLock |-> IF rowLock[s] = c THEN 0 ELSE rowLock[s]]

\* Mutant: the quota UPDATE has no WHERE clause and charges every student.
SubmitCommit_NoWhere(c) ==
    /\ call[c].pc = "commit"
    /\ laundry_requests' =
           laundry_requests @@
               (call[c].requestId :> NewRequest(call[c].user, call[c].num_clothes))
    /\ students' = IF call[c].updated
                   THEN [s \in DOMAIN students |->
                            DecrementedQuota(students[s], call[c].num_clothes)]
                   ELSE students
    /\ rowLock' = Released(c)
    /\ call' = Release(Answered(c, 201, "success"), c)
    /\ UNCHANGED <<serial, last>>

\* COMMIT, then res.status(201).json(...) and client.release(): the staged
\* row and the staged quota become visible together.
SubmitCommit(c) ==
    /\ call[c].pc = "commit"
    /\ laundry_requests' =
           laundry_requests @@
               (call[c].requestId :> NewRequest(call[c].user, call[c].num_clothes))
    /\ students' = IF call[c].updated
                   THEN [students EXCEPT ![call[c].user] = call[c].newQuota]
                   ELSE students
    /\ rowLock' = Released(c)
    /\ call' = Release(Answered(c, 201, "success"), c)
    /\ UNCHANGED <<serial, last>>

\* A query of the transaction throws (the connection drops, a statement
\* times out, a constraint fails): control passes to the catch block.
QueryThrows(c) ==
    /\ call[c].pc \in {"insert", "update", "commit"}
    /\ call' = [call EXCEPT ![c].pc = "rollback", ![c].failedAt = call[c].pc]
    /\ UNCHANGED <<students, laundry_requests, serial, rowLock, last>>

\* Mutant: the INSERT went through the pool instead of the transaction's
\* client, so it was committed on its own and ROLLBACK does not undo it.
SubmitRollback_InsertOutsideTransaction(c) ==
    /\ call[c].pc = "rollback"
    /\ rowLock' = Released(c)
    /\ laundry_requests' =
           IF call[c].requestId = 0 THEN laundry_requests
           ELSE laundry_requests @@
                    (call[c].requestId :> NewRequest(call[c].user, call[c].num_clothes))
    /\ call' = Release(Answered(c, UnhandledErrorStatus, "error"), c)
    /\ UNCHANGED <<students, serial, last>>

\* Mutant: the block has no finally, and the catch does not release the client.
SubmitRollback_NoRelease(c) ==
    /\ call[c].pc = "rollback"
    /\ rowLock' = Released(c)
    /\ Respond(c, UnhandledErrorStatus, "error")
    /\ UNCHANGED <<students, laundry_requests, serial, last>>

\* catch: await client.query('ROLLBACK'); throw error; finally
\* client.release(); then next(error): every staged write is discarded.
SubmitRollback(c) ==
    /\ call[c].pc = "rollback"
    /\ rowLock' = Released(c)
    /\ call' = Release(Answered(c, UnhandledErrorStatus, "error"), c)
    /\ UNCHANGED <<students, laundry_requests, serial, last>>

(***************************************************************************)
(* PATCH /admin/update-status: protect, restrictTo('admin'), the           *)
(* validators, then updateRequestStatus (one autocommitted UPDATE).        *)
(***************************************************************************)
\* Mutant: the dashboard takes every request that is not completed as pending.
pendingRequests_NotCompleted ==
    {i \in DOMAIN laundry_requests :
         /\ laundry_requests[i].student_id \in DOMAIN students
         /\ laundry_requests[i].status # "completed"}

\* getDashboard (admin): SELECT lr.* FROM laundry_requests lr JOIN students s
\* ON lr.student_id = s.student_id WHERE lr.status = 'submitted'; the ids of
\* the rows of data.pending_requests.
pendingRequests ==
    {i \in DOMAIN laundry_requests :
         /\ laundry_requests[i].student_id \in DOMAIN students
         /\ laundry_requests[i].status = "submitted"}

\* Mutant: the UPDATE also stamps the row's submission_date.
SetStatus_StampsSubmissionDate(requests, id, st) ==
    [requests EXCEPT ![id].status = st, ![id].submission_date = "UPDATED"]

\* UPDATE laundry_requests SET status = $1 WHERE id = $2 RETURNING *
SetStatus(requests, id, st) == [requests EXCEPT ![id].status = st]

\* Mutant: completing a request gives its garments back to the student.
updateRequestStatus_RefundOnCompletion(tk, id, st) ==
    LET ok == /\ AuthStatus({"admin"}, tk) = 0
              /\ ValidStatus(st)
              /\ id \in DOMAIN laundry_requests
    IN /\ IF ok
          THEN /\ laundry_requests' = SetStatus(laundry_requests, id, st)
               /\ last' = [statusCode |-> 200, message |-> "success"]
               /\ students' =
                      IF st = "completed"
                      THEN [students EXCEPT ![laundry_requests[id].student_id] =
                                @ + laundry_requests[id].num_clothes]
                      ELSE students
          ELSE /\ last' = [statusCode |-> 400, message |-> "rejected"]
               /\ UNCHANGED <<laundry_requests, students>>
       /\ UNCHANGED <<serial, rowLock, call>>

\* Mutant: the result of the UPDATE is returned without looking at its rows.
updateRequestStatus_NoRowCheck(tk, id, st) ==
    LET auth == AuthStatus({"admin"}, tk) IN
    /\ IF auth # 0
       THEN /\ last' = [statusCode |-> auth,
                        message |-> "Not authorized to access this route"]
            /\ UNCHANGED laundry_requests
       ELSE IF ~ValidStatus(st)
       THEN /\ last' = [statusCode |-> 400,
                        message |-> "Status must be either processing or completed"]
            /\ UNCHANGED laundry_requests
       ELSE /\ laundry_requests' =
                   IF id \in DOMAIN laundry_requests
                   THEN SetStatus(laundry_requests, id, st)
                   ELSE laundry_requests
            /\ last' = [statusCode |-> 200, message |-> "success"]
    /\ UNCHANGED <<students, serial, rowLock, call>>

updateRequestStatus(tk, id, st) ==
    LET auth == AuthStatus({"admin"}, tk) IN
    /\ IF auth # 0
       THEN /\ last' = [statusCode |-> auth,
                        message |-> "Not authorized to access this route"]
            /\ UNCHANGED laundry_requests
       ELSE IF ~ValidStatus(st)
       THEN /\ last' = [statusCode |-> 400,
                        message |-> "Status must be either processing or completed"]
            /\ UNCHANGED laundry_requests
       ELSE IF id \notin DOMAIN laundry_requests
       THEN /\ last' = [statusCode |-> 404, message |-> "Request not found"]
            /\ UNCHANGED laundry_requests
       ELSE /\ laundry_requests' = SetStatus(laundry_requests, id, st)
            /\ last' = [statusCode |-> 200, message |-> "success"]
    /\ UNCHANGED <<students, serial, rowLock, call>>

Next ==
    \/ \E c \in Calls, tk \in Tokens, n \in NumClothesInputs :
           Receive(c, tk, n) /\ UNCHANGED scriptVars
    \/ \E c \in Calls : SubmitSelect(c) /\ UNCHANGED scriptVars
    \/ \E c \in Calls : SubmitBegin(c) /\ UNCHANGED scriptVars
    \/ \E c \in Calls : SubmitInsert(c) /\ UNCHANGED scriptVars
    \/ \E c \in Calls : SubmitUpdate(c) /\ UNCHANGED scriptVars
    \/ \E c \in Calls : SubmitCommit(c) /\ UNCHANGED scriptVars
    \/ \E c \in Calls : QueryThrows(c) /\ UNCHANGED scriptVars
    \/ \E c \in Calls : SubmitRollback(c) /\ UNCHANGED scriptVars
    \/ \E tk \in Tokens, id \in 1..MaxSerial, st \in StatusInputs :
           updateRequestStatus(tk, id, st) /\ UNCHANGED scriptVars

Spec == Init /\ [][Next]_vars

\* Every continuation of an invocation runs once the query it awaits has
\* settled: the event loop starves no callback and the database answers
\* every query (a lock wait ends when the holder's transaction ends).
Fairness ==
    \A c \in Calls :
        /\ WF_vars(SubmitSelect(c) /\ UNCHANGED scriptVars)
        /\ WF_vars(SubmitBegin(c) /\ UNCHANGED scriptVars)
        /\ WF_vars(SubmitInsert(c) /\ UNCHANGED scriptVars)
        /\ WF_vars(SubmitUpdate(c) /\ UNCHANGED scriptVars)
        /\ WF_vars(SubmitCommit(c) /\ UNCHANGED scriptVars)
        /\ WF_vars(SubmitRollback(c) /\ UNCHANGED scriptVars)

SpecLive == Spec /\ Fairness

(***************************************************************************)
(* The quota ledger.                                                       *)
(***************************************************************************)
\* The statuses whose requests count against the quota.
ChargedStatuses == {"submitted", "processing", "completed"}

TerminalStatuses == {"completed", "cancelled"}

\* CHECK (status IN ('submitted', 'processing', 'completed', 'cancelled'))
StatusDomain == {"submitted", "processing", "completed", "cancelled"}

\* The transitions of the request state machine.
LegalTransitions ==
    {<<"submitted", "processing">>, <<"submitted", "cancelled">>,
     <<"processing", "completed">>, <<"processing", "cancelled">>}

\* Upper end of the accepted num_clothes range.
MaxNumClothes == 50

RECURSIVE SumClothes(_, _)
SumClothes(rows, ids) ==
    IF ids = {} THEN 0
    ELSE LET i == CHOOSE x \in ids : TRUE
         IN rows[i].num_clothes + SumClothes(rows, ids \ {i})

\* Garments of student s's committed requests that are charged.
Charged(s) ==
    SumClothes(laundry_requests,
               {i \in DOMAIN laundry_requests :
                    /\ laundry_requests[i].student_id = s
                    /\ laundry_requests[i].status \in ChargedStatuses})

\* No submitRequest invocation is between its first query and its response.
Quiescent == \A c \in Calls : call[c].pc \in {"idle", "done"}

\* Call c takes the step from position `from` to its response.
Finishes(c, from) == call[c].pc = from /\ call'[c].pc = "done"

(***************************************************************************)
(* C1. Ledger consistency: in every quiescent state each student's         *)
(* remaining_quota equals the quota limit (30) minus the garments of that  *)
(* student's requests that are submitted, processing or completed.         *)
(***************************************************************************)
C1_LedgerConsistency ==
    Quiescent =>
        \A s \in DOMAIN students : students[s] = DefaultQuota - Charged(s)

\* Quiescent, after a submission was charged and its request completed.
C1_Witness ==
    /\ Quiescent
    /\ \E i \in DOMAIN laundry_requests :
           /\ laundry_requests[i].status = "completed"
           /\ students[laundry_requests[i].student_id]
                  = DefaultQuota - laundry_requests[i].num_clothes

(***************************************************************************)
(* C2. Quota bounds: in every reachable state, interleaved submissions     *)
(* included, 0 <= remaining_quota <= quota limit for every student.        *)
(***************************************************************************)
C2_QuotaBounds ==
    \A s \in DOMAIN students : 0 <= students[s] /\ students[s] <= DefaultQuota

(***************************************************************************)
(* C3. Submission race: of two finished calls for one student that both    *)
(* checked the same remaining quota q, each asking for no more than q but  *)
(* together for more than q, and neither hit by a failing query, exactly   *)
(* one succeeded (201) and the other got the insufficient-quota error.     *)
(***************************************************************************)
C3_RaceOneWinner ==
    \A c1, c2 \in Calls :
        ( /\ c1 # c2
          /\ call[c1].pc = "done" /\ call[c2].pc = "done"
          /\ call[c1].user # "" /\ call[c1].user = call[c2].user
          /\ call[c1].statusCode # UnhandledErrorStatus /\ call[c2].statusCode # UnhandledErrorStatus
          /\ call[c1].remainingQuota = call[c2].remainingQuota
          /\ call[c1].num_clothes \in 1..call[c1].remainingQuota
          /\ call[c2].num_clothes \in 1..call[c2].remainingQuota
          /\ call[c1].num_clothes + call[c2].num_clothes > call[c1].remainingQuota )
        => \/ /\ call[c1].statusCode = 201
              /\ call[c2].message = "Insufficient quota"
           \/ /\ call[c2].statusCode = 201
              /\ call[c1].message = "Insufficient quota"

(***************************************************************************)
(* C4. Submit atomicity: the request row and the quota decrement become    *)
(* visible in one step or never; a transaction whose query threw is rolled *)
(* back in full (no row of it, no quota change, no lock left) and the call *)
(* ends with an error.                                                     *)
(***************************************************************************)
C4_SubmitAtomicity ==
    [][ /\ \A c \in Calls :
              Finishes(c, "rollback") =>
                  /\ students' = students
                  /\ laundry_requests' = laundry_requests
                  /\ call[c].requestId \notin DOMAIN laundry_requests'
                  /\ \A s \in DOMAIN rowLock' : rowLock'[s] # c
                  /\ call'[c].statusCode >= 400
        /\ \A i \in DOMAIN laundry_requests' \ DOMAIN laundry_requests :
              LET r == laundry_requests'[i]
              IN students'[r.student_id] = students[r.student_id] - r.num_clothes
        /\ students' # students =>
              DOMAIN laundry_requests' # DOMAIN laundry_requests
        /\ \A c \in Calls :
              call'[c].pc \in {"update", "commit", "rollback"} =>
                  call'[c].requestId \notin DOMAIN laundry_requests' ]_vars

\* The decrement threw after the insert was staged, the call has answered with
\* an error, and nothing of it is in the tables (the id it drew is gone).
C4_Witness ==
    \E c \in Calls :
        /\ call[c].pc = "done"
        /\ call[c].failedAt = "update"
        /\ call[c].statusCode = UnhandledErrorStatus
        /\ serial = 2
        /\ laundry_requests = << >>
        /\ students[call[c].user] = DefaultQuota

(***************************************************************************)
(* C5. Quota exhaustion: a call whose num_clothes exceeds the student's    *)
(* remaining quota when it is checked ends with 400 'Insufficient quota',  *)
(* and that step changes no quota and creates no request.                  *)
(***************************************************************************)
C5_QuotaExhaustion ==
    [][ \A c \in Calls :
            ( /\ call[c].pc = "select"
              /\ call'[c].pc # "select"
              /\ call[c].user \in DOMAIN students
              /\ call[c].num_clothes > students[call[c].user] )
            => /\ call'[c].pc = "done"
               /\ call'[c].statusCode = 400
               /\ call'[c].message = "Insufficient quota"
               /\ students' = students
               /\ laundry_requests' = laundry_requests
               /\ serial' = serial ]_vars

\* A request of 20 against a remaining quota of 10 was refused.
C5_Witness ==
    \E c \in Calls :
        /\ call[c].pc = "done"
        /\ call[c].message = "Insufficient quota"
        /\ call[c].num_clothes = 20
        /\ call[c].remainingQuota = 10
        /\ students[call[c].user] = 10

(***************************************************************************)
(* C6. Submit effect: the step that answers 201 adds exactly one request,  *)
(* owned by the caller, with status submitted and the given num_clothes,   *)
(* leaves every other request as it was, and lowers the caller's quota by  *)
(* exactly num_clothes and nobody else's.                                  *)
(***************************************************************************)
C6_SubmitEffect ==
    [][ \A c \in Calls :
            (Finishes(c, "commit") /\ call'[c].statusCode = 201)
            => LET s == call[c].user
                   n == call[c].num_clothes
               IN /\ \E i \in DOMAIN laundry_requests' :
                        /\ i \notin DOMAIN laundry_requests
                        /\ DOMAIN laundry_requests' = DOMAIN laundry_requests \cup {i}
                        /\ laundry_requests'[i].student_id = s
                        /\ laundry_requests'[i].num_clothes = n
                        /\ laundry_requests'[i].status = "submitted"
                  /\ \A j \in DOMAIN laundry_requests :
                        laundry_requests'[j] = laundry_requests[j]
                  /\ students' = [students EXCEPT ![s] = students[s] - n] ]_vars

\* A submission of 20 from a quota of 30 was answered 201: quota 10, one
\* submitted request of 20.
C6_Witness ==
    \E c \in Calls :
        /\ call[c].pc = "done"
        /\ call[c].statusCode = 201
        /\ call[c].num_clothes = 20
        /\ students[call[c].user] = DefaultQuota - 20
        /\ \E i \in DOMAIN laundry_requests :
               /\ laundry_requests[i].student_id = call[c].user
               /\ laundry_requests[i].status = "submitted"
               /\ laundry_requests[i].num_clothes = 20

(***************************************************************************)
(* C7. Input validation: every call that passed authentication with a      *)
(* num_clothes outside 1..50 ends with the validation error, and no stored *)
(* request has num_clothes outside 1..50.                                  *)
(***************************************************************************)
C7_InputValidation ==
    /\ \A c \in Calls :
           ( /\ call[c].pc = "done"
             /\ call[c].user # ""
             /\ call[c].num_clothes \notin 1..MaxNumClothes )
           => call[c].message = "Number of clothes must be at least 1"
    /\ \A i \in DOMAIN laundry_requests :
           laundry_requests[i].num_clothes \in 1..MaxNumClothes

(***************************************************************************)
(* C8. Legal transitions only: a request's status changes only along       *)
(* submitted->processing, submitted->cancelled, processing->completed or   *)
(* processing->cancelled.                                                  *)
(***************************************************************************)
C8_LegalTransitionsOnly ==
    [][ \A i \in DOMAIN laundry_requests :
            laundry_requests'[i].status # laundry_requests[i].status =>
                <<laundry_requests[i].status, laundry_requests'[i].status>>
                    \in LegalTransitions ]_vars

(***************************************************************************)
(* C9. Terminal states: once a request is completed or cancelled, no later *)
(* updateStatus call succeeds on it and its row and its owner's quota stay *)
(* as they were.                                                           *)
(***************************************************************************)
C9_TerminalStatesFinal ==
    [][ \A tk \in Tokens, i \in DOMAIN laundry_requests, st \in StatusInputs :
            ( /\ laundry_requests[i].status \in TerminalStatuses
              /\ updateRequestStatus(tk, i, st) )
            => /\ last'.statusCode >= 400
               /\ laundry_requests'[i] = laundry_requests[i]
               /\ students' = students ]_vars

(***************************************************************************)
(* C10. Refund on cancel: an admin's updateStatus to cancelled on a        *)
(* submitted or processing request sets its status to cancelled and raises *)
(* the owner's remaining quota by the request's num_clothes.               *)
(***************************************************************************)
C10_RefundOnCancel ==
    [][ \A tk \in Tokens, i \in DOMAIN laundry_requests :
            ( /\ tk.role = "admin"
              /\ laundry_requests[i].status \in {"submitted", "processing"}
              /\ updateRequestStatus(tk, i, "cancelled") )
            => LET r == laundry_requests[i]
               IN /\ laundry_requests'[i].status = "cancelled"
                  /\ students'[r.student_id] = students[r.student_id] + r.num_clothes
       ]_vars

(***************************************************************************)
(* C11. No refund on completion: a step that moves a request from          *)
(* submitted to processing or from processing to completed leaves every    *)
(* student's remaining_quota unchanged.                                    *)
(***************************************************************************)
C11_NoRefundOnCompletion ==
    [][ \A i \in DOMAIN laundry_requests :
            <<laundry_requests[i].status, laundry_requests'[i].status>>
                \in {<<"submitted", "processing">>, <<"processing", "completed">>}
            => students' = students ]_vars

\* A submission of 20 from 30 was completed by the admin: the quota is still 10.
C11_Witness ==
    /\ last.statusCode = 200
    /\ \E i \in DOMAIN laundry_requests :
           /\ laundry_requests[i].status = "completed"
           /\ laundry_requests[i].num_clothes = 20
           /\ students[laundry_requests[i].student_id] = DefaultQuota - 20
           /\ \A j \in DOMAIN laundry_requests : j = i

(***************************************************************************)
(* C12. Admin-only transitions: an updateStatus call by an authenticated   *)
(* principal whose role is not admin is answered 403 and changes no        *)
(* request and no quota.                                                   *)
(***************************************************************************)
C12_AdminOnly ==
    [][ \A tk \in {t \in Tokens : protect(t) /\ t.role # "admin"} :
        \A id \in 1..MaxSerial, st \in StatusInputs :
            updateRequestStatus(tk, id, st)
            => /\ last'.statusCode = 403
               /\ laundry_requests' = laundry_requests
               /\ students' = students ]_vars

\* A student's call was answered 403 while a submitted request exists: it is
\* still submitted.
C12_Witness ==
    /\ last.statusCode = 403
    /\ \E i \in DOMAIN laundry_requests : laundry_requests[i].status = "submitted"

(***************************************************************************)
(* C13. Pending list: in every state the pending requests of the admin     *)
(* dashboard are exactly the requests whose status is submitted; a request *)
(* moved to processing is not among them.                                  *)
(***************************************************************************)
C13_PendingList ==
    /\ \A i \in DOMAIN laundry_requests :
           i \in pendingRequests <=> laundry_requests[i].status = "submitted"
    /\ pendingRequests \subseteq DOMAIN laundry_requests

\* The admin moved one request to processing while another is submitted: the
\* dashboard lists the second only.
C13_Witness ==
    /\ last.statusCode = 200
    /\ \E i, j \in DOMAIN laundry_requests :
           /\ laundry_requests[i].status = "processing"
           /\ laundry_requests[j].status = "submitted"
           /\ pendingRequests = {j}

(***************************************************************************)
(* C14. startedDate: a request that is submitted has no started_date, and  *)
(* a request that has entered processing has one, which never changes      *)
(* afterwards.                                                             *)
(***************************************************************************)
C14_StartedDateSetOnce ==
    \A i \in DOMAIN laundry_requests :
        /\ laundry_requests[i].status = "submitted" =>
               started_date(laundry_requests[i]) = "NULL"
        /\ laundry_requests[i].status = "processing" =>
               started_date(laundry_requests[i]) # "NULL"

(***************************************************************************)
(* C15. completedDate: in every state a request is completed or cancelled  *)
(* if and only if its completed_date is set.                               *)
(***************************************************************************)
C15_CompletedDateIffTerminal ==
    \A i \in DOMAIN laundry_requests :
        laundry_requests[i].status \in TerminalStatuses
            <=> laundry_requests[i].completed_date # "NULL"

C17_UnknownStudent ==
    [][ \A c \in Calls, tk \in Tokens, n \in NumClothesInputs :
            ( /\ tk.role = "student"
              /\ tk.id \notin DOMAIN students
              /\ Receive(c, tk, n) )
            => /\ call'[c].statusCode = 404
               /\ laundry_requests' = laundry_requests
               /\ students' = students ]_vars

(***************************************************************************)
(* C18. Same-student linearizability: in every quiescent state the         *)
(* requests created for a student and the student's remaining_quota are    *)
(* what running the submissions that created them one at a time, in some   *)
(* order, from the quota limit gives (updateStatus writes no quota, so its *)
(* place in the order does not matter).                                    *)
(***************************************************************************)
\* Ids of the committed requests of student s.
RequestsOf(s) ==
    {i \in DOMAIN laundry_requests : laundry_requests[i].student_id = s}

\* The orders in which the requests ids can have been submitted.
Orders(ids) ==
    {o \in [1..Cardinality(ids) -> ids] :
         \A j, k \in 1..Cardinality(ids) : j # k => o[j] # o[k]}

\* submitRequest run alone for each request of order o in turn, from quota q:
\* the quota left, and whether every one of them passed the quota check.
RECURSIVE SerialRun(_, _, _)
SerialRun(q, o, j) ==
    IF j > Len(o) THEN [quota |-> q, created |-> TRUE]
    ELSE LET n == laundry_requests[o[j]].num_clothes IN
         IF InsufficientQuota(q, n) THEN [quota |-> q, created |-> FALSE]
         ELSE SerialRun(DecrementedQuota(q, n), o, j + 1)

C18_SameStudentLinearizable ==
    Quiescent =>
        \A s \in DOMAIN students :
            \E o \in Orders(RequestsOf(s)) :
                LET r == SerialRun(DefaultQuota, o, 1)
                IN r.created /\ r.quota = students[s]

(***************************************************************************)
(* C19. Cross-student independence: a step of a submitRequest for student  *)
(* A changes no other student's remaining_quota, row lock or requests, and *)
(* whether it passes the quota check is decided by A's quota alone; an     *)
(* updateStatus changes the one request it names and no quota.             *)
(***************************************************************************)
C19_CrossStudentIndependence ==
    [][ /\ \A c \in Calls :
              call'[c] # call[c] =>
                  /\ \A B \in DOMAIN students \ {call'[c].user} :
                         /\ students'[B] = students[B]
                         /\ rowLock'[B] = rowLock[B]
                         /\ \A i \in DOMAIN laundry_requests' :
                                laundry_requests'[i].student_id = B =>
                                    /\ i \in DOMAIN laundry_requests
                                    /\ laundry_requests'[i] = laundry_requests[i]
                  /\ (call[c].pc = "select" /\ call[c].user \in DOMAIN students) =>
                         (call'[c].pc = "connect"
                              <=> students[call[c].user] >= call[c].num_clothes)
        /\ \A i \in DOMAIN laundry_requests :
              laundry_requests'[i] # laundry_requests[i] =>
                  /\ students' = students
                  /\ \A j \in DOMAIN laundry_requests' \ {i} :
                         laundry_requests'[j] = laundry_requests[j] ]_vars

\* Submissions of two different students were both answered 201, and each
\* student was charged for their own request only.
C19_Witness ==
    \E c1, c2 \in Calls :
        /\ call[c1].user # call[c2].user
        /\ call[c1].statusCode = 201 /\ call[c2].statusCode = 201
        /\ students[call[c1].user] = DefaultQuota - call[c1].num_clothes
        /\ students[call[c2].user] = DefaultQuota - call[c2].num_clothes
        /\ Cardinality(DOMAIN laundry_requests) = 2

(***************************************************************************)
(* C20. Concurrent admin updates: updateRequestStatus is one UPDATE, so    *)
(* two racing calls on a request take effect one after the other; the      *)
(* later one, asking for a status that is no legal successor of the status *)
(* the earlier one wrote, is answered with an invalid-transition (400) or  *)
(* conflict (409) error and leaves the earlier call's status in place.     *)
(***************************************************************************)
C20_RaceLoserRejected ==
    [][ \A tk \in Tokens, i \in DOMAIN laundry_requests, st \in StatusInputs :
            ( /\ AuthStatus({"admin"}, tk) = 0
              /\ laundry_requests[i].status # "submitted"
              /\ st # laundry_requests[i].status
              /\ <<laundry_requests[i].status, st>> \notin LegalTransitions
              /\ updateRequestStatus(tk, i, st) )
            => /\ last'.statusCode \in {400, 409}
               /\ laundry_requests'[i].status = laundry_requests[i].status ]_vars

(***************************************************************************)
(* C21. Ownership of the charge: the student a submitRequest works for is  *)
(* the student of the token protect accepted; the request it commits has   *)
(* that student_id, and that student's quota is the only one it writes.    *)
(***************************************************************************)
C21_ChargeOwnership ==
    [][ /\ \A c \in {x \in Calls : call'[x].pc = "select" /\ call[x].pc # "select"} :
           \A tk \in Tokens, n \in NumClothesInputs :
              Receive(c, tk, n) =>
                  /\ tk.role = "student"
                  /\ tk.id \in DOMAIN students
                  /\ call'[c].user = tk.id
        /\ \A c \in Calls :
              call[c].pc \notin {"idle", "done"} => call'[c].user = call[c].user
        /\ \A c \in Calls :
              Finishes(c, "commit") =>
                  /\ call'[c].statusCode = 201
                  /\ laundry_requests'[call[c].requestId].student_id = call[c].user
                  /\ DOMAIN laundry_requests' =
                         DOMAIN laundry_requests \cup {call[c].requestId}
                  /\ \A s \in DOMAIN students \ {call[c].user} :
                         students'[s] = students[s]
        /\ DOMAIN laundry_requests' # DOMAIN laundry_requests =>
              \E c \in Calls : Finishes(c, "commit") ]_vars

\* STU001's submission was answered 201: the one request is STU001's, STU001
\* was charged and STUDENT001 was not.
C21_Witness ==
    \E c \in Calls :
        /\ call[c].pc = "done" /\ call[c].statusCode = 201
        /\ call[c].user = "STU001"
        /\ DOMAIN laundry_requests = {1}
        /\ laundry_requests[1].student_id = "STU001"
        /\ students["STU001"] = DefaultQuota - laundry_requests[1].num_clothes
        /\ students["STUDENT001"] = DefaultQuota

(***************************************************************************)
(* C22. The insufficient-quota failure carries the requested and the       *)
(* available amount: two such failures that differ in the requested amount *)
(* or in the quota that was read differ in their message.                  *)
(***************************************************************************)
\* Call c was answered with the failure of the quota check.
QuotaCheckFailed(c) ==
    /\ call[c].pc = "done"
    /\ call[c].statusCode = 400
    /\ ValidNumClothes(call[c].num_clothes)
    /\ InsufficientQuota(call[c].remainingQuota, call[c].num_clothes)

C22_MessageCarriesAmounts ==
    \A c1, c2 \in Calls :
        ( /\ QuotaCheckFailed(c1) /\ QuotaCheckFailed(c2)
          /\ <<call[c1].num_clothes, call[c1].remainingQuota>>
                 # <<call[c2].num_clothes, call[c2].remainingQuota>> )
        => call[c1].message # call[c2].message

(***************************************************************************)
(* C23. Request immutability: a committed request is never removed or      *)
(* renumbered, and no step changes any of its columns other than status    *)
(* (and the transition timestamp completed_date): student_id, num_clothes  *)
(* and submission_date stay as created.                                    *)
(***************************************************************************)
C23_RequestImmutability ==
    [][ \A i \in DOMAIN laundry_requests :
            /\ i \in DOMAIN laundry_requests'
            /\ [laundry_requests'[i] EXCEPT
                    !.status = laundry_requests[i].status,
                    !.completed_date = laundry_requests[i].completed_date]
                   = laundry_requests[i] ]_vars

\* A request went through both status updates and still has the columns it
\* was created with.
C23_Witness ==
    \E i \in DOMAIN laundry_requests :
        /\ laundry_requests[i].status = "completed"
        /\ last.statusCode = 200
        /\ laundry_requests[i] =
               [NewRequest(laundry_requests[i].student_id, 20)
                    EXCEPT !.status = "completed"]

(***************************************************************************)
(* C24. Status domain: every request's status is one of submitted,         *)
(* processing, completed, cancelled after every step, and an updateStatus  *)
(* carrying any other value is rejected and stores nothing.                *)
(***************************************************************************)
C24_StatusDomain ==
    [][ /\ \A i \in DOMAIN laundry_requests' :
              laundry_requests'[i].status \in StatusDomain
        /\ \A tk \in Tokens, id \in 1..MaxSerial, st \in StatusInputs \ StatusDomain :
              updateRequestStatus(tk, id, st) =>
                  /\ last'.statusCode >= 400
                  /\ laundry_requests' = laundry_requests
                  /\ students' = students ]_vars

\* An admin's call was rejected by the status validator while a request that
\* an earlier call had moved to processing exists.
C24_Witness ==
    /\ last.statusCode = 400
    /\ \E i \in DOMAIN laundry_requests : laundry_requests[i].status = "processing"

(***************************************************************************)
(* C27. Role gating of submit: the handler of POST /student/submit runs    *)
(* only for a token protect accepts with role student; a call with no or   *)
(* an invalid token, or a token whose user has no row, is answered 401, an *)
(* admin's call 403, and none of them creates a request or changes a quota.*)
(***************************************************************************)
C27_SubmitRoleGating ==
    [][ \A c \in {x \in Calls : call'[x] # call[x]} :
        \A tk \in Tokens, n \in NumClothesInputs :
            Receive(c, tk, n) =>
                /\ call'[c].user # "" =>
                       /\ tk.role = "student"
                       /\ tk.id \in DOMAIN students
                /\ (tk = NoToken \/ (tk.role = "student" /\ tk.id \notin DOMAIN students)) =>
                       /\ call'[c].pc = "done" /\ call'[c].statusCode = 401
                       /\ call'[c].user = ""
                /\ tk.role = "admin" =>
                       /\ call'[c].pc = "done" /\ call'[c].statusCode = 403
                       /\ call'[c].user = ""
                /\ call'[c].user = "" =>
                       /\ laundry_requests' = laundry_requests
                       /\ students' = students
                       /\ serial' = serial ]_vars

\* One call was turned away with 403 and one with 401, after a student's
\* submission had gone through; only that submission is in the tables.
C27_Witness ==
    \E c1, c2 \in Calls :
        /\ call[c1].pc = "done" /\ call[c1].statusCode = 403
        /\ call[c2].pc = "done" /\ call[c2].statusCode = 401
        /\ Cardinality(DOMAIN laundry_requests) = 1

(***************************************************************************)
(* C28. Run to completion: every submitRequest invocation that has started *)
(* eventually sends its response; a call has sent a response exactly when  *)
(* it is over, and it holds one pooled client while its transaction is     *)
(* open and none before or after, however the transaction ended.           *)
(***************************************************************************)
\* The positions between pool.connect() and client.release().
InTransaction == {"insert", "update", "commit", "rollback"}

C28_RunsToCompletion ==
    /\ [](\A c \in Calls :
              /\ call[c].client = IF call[c].pc \in InTransaction THEN 1 ELSE 0
              /\ call[c].statusCode # 0 <=> call[c].pc = "done")
    /\ \A c \in Calls :
           (call[c].pc \notin {"idle", "done"}) ~> (call[c].pc = "done")

\* One call committed and one was rolled back after its COMMIT threw; both
\* have answered and neither holds a client.
C28_Witness ==
    \E c1, c2 \in Calls :
        /\ call[c1].pc = "done" /\ call[c1].statusCode = 201
        /\ call[c2].pc = "done" /\ call[c2].failedAt = "commit"
        /\ call[c2].statusCode = UnhandledErrorStatus
        /\ call[c1].client = 0 /\ call[c2].client = 0

(***************************************************************************)
(* The database scripts: the seed files and the reset script, run against  *)
(* the tables of schema.sql while the server is idle.                      *)
(***************************************************************************)
\* dev-data.sql: INSERT INTO students (student_id, name, remaining_quota)
DevDataStudents ==
    ("STU001" :> 30) @@ ("STU002" :> 30) @@ ("STU003" :> 30) @@ ("STU004" :> 30)
        @@ ("STUDENT001" :> 25)

\* A seeded row of laundry_requests (student_id, num_clothes, status,
\* submission_date); completed_date keeps its default.
SeedRequest(studentId, n, st) ==
    [student_id |-> studentId, num_clothes |-> n, status |-> st,
     submission_date |-> "NOW() - INTERVAL", completed_date |-> "NULL"]

\* dev-data.sql: INSERT INTO laundry_requests
DevDataRequests ==
    << SeedRequest("STU001", 5, "submitted"), SeedRequest("STU001", 3, "completed"),
       SeedRequest("STU002", 4, "processing"), SeedRequest("STU002", 6, "completed"),
       SeedRequest("STU003", 8, "submitted"), SeedRequest("STU003", 2, "completed"),
       SeedRequest("STU004", 5, "processing"), SeedRequest("STU004", 4, "submitted"),
       SeedRequest("STUDENT001", 5, "completed") >>

\* init.sql: INSERT INTO students
InitSqlStudents ==
    ("STU001" :> 30) @@ ("STU002" :> 30) @@ ("STU003" :> 30) @@ ("STU004" :> 30)

\* init.sql: INSERT INTO laundry_requests
InitSqlRequests == SubSeq(DevDataRequests, 1, 8)

\* The rows a multi-row INSERT creates, with ids drawn from the sequence
\* starting at its next value.
Inserted(rows, first) ==
    [i \in first..(first + Len(rows) - 1) |-> rows[i - first + 1]]

\* The reset script holds the ACCESS EXCLUSIVE lock of a TRUNCATE: every
\* script starts with TRUNCATE TABLE laundry_requests and waits for it.
TablesLocked ==
    reset.pc \in {"truncate_students", "truncate_admins", "insert_student",
                  "insert_admin", "commit", "rollback"}

\* What a seed file does: TRUNCATE the three tables, then insert its rows.
Seed(studentRows, requestRows) ==
    /\ students' = studentRows
    /\ laundry_requests' = Inserted(requestRows, serial)
    /\ serial' = serial + Len(requestRows)
    /\ admins' = ("admin" :> NewAdmin(adminSerial, "admin123"))
    /\ adminSerial' = adminSerial + 1
    /\ UNCHANGED <<rowLock, call, last, reset>>

\* psql -f dev-data.sql
SeedDevData ==
    /\ ~TablesLocked
    /\ adminSerial <= MaxAdminSerial
    /\ Seed(DevDataStudents, DevDataRequests)

\* init-db.js: pool.query(init.sql)
SeedInitSql ==
    /\ ~TablesLocked
    /\ adminSerial <= MaxAdminSerial
    /\ Seed(InitSqlStudents, InitSqlRequests)

\* resetDatabase: const client = await pool.connect(); BEGIN
ResetBegin ==
    /\ reset.pc = "idle"
    /\ adminSerial <= MaxAdminSerial
    /\ reset' = [IdleReset EXCEPT !.pc = "truncate_laundry_requests"]
    /\ UNCHANGED <<students, laundry_requests, serial, rowLock, call, last,
                   admins, adminSerial>>

\* The statement after each TRUNCATE of the script.
AfterTruncate ==
    ("truncate_laundry_requests" :> "truncate_students")
        @@ ("truncate_students" :> "truncate_admins")
        @@ ("truncate_admins" :> "insert_student")

\* Mutant: the TRUNCATEs go through the pool, each committed on its own.
ResetTruncate_Autocommit ==
    /\ reset.pc \in DOMAIN AfterTruncate
    /\ reset' = [reset EXCEPT !.pc = AfterTruncate[reset.pc]]
    /\ laundry_requests' = << >>
    /\ students' = IF reset.pc = "truncate_laundry_requests" THEN students ELSE << >>
    /\ admins' = IF reset.pc = "truncate_admins" THEN << >> ELSE admins
    /\ UNCHANGED <<serial, rowLock, call, last, adminSerial>>

\* TRUNCATE TABLE laundry_requests | students | admins CASCADE, inside the
\* transaction: the tables are empty for the script and, until COMMIT, as
\* they were for everyone else.
ResetTruncate ==
    /\ reset.pc \in DOMAIN AfterTruncate
    /\ reset' = [reset EXCEPT !.pc = AfterTruncate[reset.pc]]
    /\ UNCHANGED <<students, laundry_requests, serial, rowLock, call, last,
                   admins, adminSerial>>

\* INSERT INTO students ... VALUES ('STUDENT001', 'Test Student', 30)
ResetInsertStudent ==
    /\ reset.pc = "insert_student"
    /\ reset' = [reset EXCEPT !.pc = "insert_admin",
                              !.students = ("STUDENT001" :> 30)]
    /\ UNCHANGED <<students, laundry_requests, serial, rowLock, call, last,
                   admins, adminSerial>>

\* bcrypt.hash('admin123', 10); INSERT INTO admins ... VALUES ('admin', $1):
\* the id is drawn from the sequence for good, the row is staged.
ResetInsertAdmin ==
    /\ reset.pc = "insert_admin"
    /\ reset' = [reset EXCEPT !.pc = "commit",
                              !.admins = ("admin" :> NewAdmin(adminSerial, "admin123"))]
    /\ adminSerial' = adminSerial + 1
    /\ UNCHANGED <<students, laundry_requests, serial, rowLock, call, last, admins>>

\* COMMIT; client.release(); pool.end(): the emptied tables and the staged
\* rows become the database.
ResetCommit ==
    /\ reset.pc = "commit"
    /\ students' = reset.students
    /\ laundry_requests' = << >>
    /\ admins' = reset.admins
    /\ reset' = IdleReset
    /\ UNCHANGED <<serial, rowLock, call, last, adminSerial>>

\* A statement of the script throws: control passes to the catch block.
ResetThrows ==
    /\ reset.pc \notin {"idle", "rollback"}
    /\ reset' = [reset EXCEPT !.pc = "rollback"]
    /\ UNCHANGED <<students, laundry_requests, serial, rowLock, call, last,
                   admins, adminSerial>>

\* catch: ROLLBACK; process.exit(1)
ResetRollback ==
    /\ reset.pc = "rollback"
    /\ reset' = [IdleReset EXCEPT !.exitCode = 1]
    /\ UNCHANGED <<students, laundry_requests, serial, rowLock, call, last,
                   admins, adminSerial>>

\* The database once schema.sql has created its tables.
InitDb ==
    /\ students = << >>
    /\ laundry_requests = << >>
    /\ serial = 1
    /\ rowLock = << >>
    /\ call = [c \in Calls |-> IdleCall]
    /\ last = NoResponse
    /\ admins = << >>
    /\ adminSerial = 1
    /\ reset = IdleReset

NextDb ==
    \/ SeedDevData
    \/ SeedInitSql
    \/ ResetBegin
    \/ ResetTruncate
    \/ ResetInsertStudent
    \/ ResetInsertAdmin
    \/ ResetCommit
    \/ ResetThrows
    \/ ResetRollback

SpecDb == InitDb /\ [][NextDb]_vars

(***************************************************************************)
(* POST /auth/login.                                                       *)
(***************************************************************************)
\* Bodies {username, password} a client sends.
UsernameInputs == {"", "admin", "STUDENT001", "STU001", "nobody"}

PasswordInputs == {"", "admin123", "letmein"}

\* The answer of login: its status and the payload of the token it signed
\* (NoToken when the answer carries none).
LoginFailure(code) == [statusCode |-> code, token |-> NoToken]

LoginSuccess(role, id) ==
    [statusCode |-> 200, token |-> [role |-> role, id |-> id]]

\* Mutant: the admin branch does not compare the password with the hash.
login_NoPasswordCheck(username, password) ==
    IF username \in DOMAIN students
    THEN LoginSuccess("student", username)
    ELSE IF username \notin DOMAIN admins
    THEN LoginFailure(401)
    ELSE LoginSuccess("admin", admins[username].id)

\* login: the username is looked up among the students first (no password
\* is checked for them), then among the admins, whose password is compared
\* with the stored hash.
login(username, password) ==
    IF username \in DOMAIN students
    THEN LoginSuccess("student", username)
    ELSE IF username \notin DOMAIN admins
    THEN LoginFailure(401)
    ELSE IF ~compare(password, admins[username].password_hash)
    THEN LoginFailure(401)
    ELSE LoginSuccess("admin", admins[username].id)

\* The route: body('username').notEmpty(), body('password').notEmpty(),
\* validateRequest, login.
loginRoute(username, password) ==
    IF username = "" \/ password = ""
    THEN LoginFailure(400)
    ELSE login(username, password)

(***************************************************************************)
(* C25. Referential integrity with history preserved: after every step     *)
(* each request's student_id names an existing student, and no step        *)
(* removes a student that has requests.                                    *)
(***************************************************************************)
C25_HistoryPreserved ==
    [][ /\ \A i \in DOMAIN laundry_requests' :
              laundry_requests'[i].student_id \in DOMAIN students'
        /\ \A s \in DOMAIN students :
              RequestsOf(s) # {} => s \in DOMAIN students' ]_vars

(***************************************************************************)
(* C26. Initial state: the tables a seed file or the reset script leaves   *)
(* satisfy the ledger: each student's remaining_quota is 30 minus the      *)
(* garments of that student's requests that are submitted, processing or   *)
(* completed.                                                              *)
(***************************************************************************)
\* Garments of student s's charged requests among rows.
ChargedIn(rows, s) ==
    SumClothes(rows, {i \in DOMAIN rows :
                          /\ rows[i].student_id = s
                          /\ rows[i].status \in ChargedStatuses})

C26_SeededLedger ==
    [][ (SeedDevData \/ SeedInitSql \/ ResetCommit) =>
            \A s \in DOMAIN students' :
                students'[s] = DefaultQuota - ChargedIn(laundry_requests', s) ]_vars

(***************************************************************************)
(* C29. resetDb is all-or-nothing: its COMMIT leaves exactly the student   *)
(* STUDENT001 with remaining_quota 30, the one admin 'admin' and no        *)
(* request; every other step of the script, its ROLLBACK after a failing   *)
(* statement included, leaves the three tables as they were.               *)
(***************************************************************************)
C29_ResetAllOrNothing ==
    [][ /\ ResetCommit =>
              /\ students' = ("STUDENT001" :> DefaultQuota)
              /\ DOMAIN admins' = {"admin"}
              /\ compare("admin123", admins'["admin"].password_hash)
              /\ laundry_requests' = << >>
              /\ reset'.exitCode = 0
        /\ (ResetBegin \/ ResetTruncate \/ ResetInsertStudent \/ ResetInsertAdmin
                \/ ResetThrows \/ ResetRollback) =>
              /\ students' = students
              /\ laundry_requests' = laundry_requests
              /\ admins' = admins
        /\ ResetRollback => reset'.exitCode = 1 ]_vars

\* A run of the script threw at its COMMIT, after the TRUNCATEs and both
\* INSERTs, and exited with code 1; the seeded students and their nine
\* requests are all there.
C29_Witness ==
    /\ reset.pc = "idle" /\ reset.exitCode = 1
    /\ students = DevDataStudents
    /\ Cardinality(DOMAIN laundry_requests) = Len(DevDataRequests)
    /\ adminSerial = 3

(***************************************************************************)
(* C30. Login role assignment: a token with role admin is issued only for  *)
(* an admin's username together with the password whose hash is stored; a  *)
(* username that is a student id gets a student token for that id whatever *)
(* the password; an unknown username, or an admin's username with a wrong  *)
(* password, gets 401 and no token.                                        *)
(***************************************************************************)
C30_LoginRoles ==
    \A u \in UsernameInputs \ {""}, p \in PasswordInputs \ {""} :
        LET r == loginRoute(u, p) IN
        /\ r.token.role = "admin" =>
               /\ u \in DOMAIN admins /\ u \notin DOMAIN students
               /\ p = "admin123"
               /\ r.token.id = admins[u].id
        /\ u \in DOMAIN students =>
               /\ r.statusCode = 200
               /\ r.token.role = "student" /\ r.token.id = u
        /\ (u \notin DOMAIN students /\ (u \notin DOMAIN admins \/ p # "admin123")) =>
               /\ r.statusCode = 401
               /\ r.token.role = "none"

\* After a reset that followed a seeding: the admin logs in with the password,
\* not without it; STUDENT001 logs in by id; STU001, whose row is gone, does not.
C30_Witness ==
    /\ DOMAIN students = {"STUDENT001"}
    /\ adminSerial > 2
    /\ loginRoute("admin", "admin123").token.role = "admin"
    /\ loginRoute("admin", "letmein").statusCode = 401
    /\ loginRoute("STUDENT001", "letmein").token.role = "student"
    /\ loginRoute("STU001", "admin123").statusCode = 401
====
